---- MODULE Spec2Model ----
(***************************************************************************)
(* Checkpoint / validation bookkeeping of padertorch/train/hooks.py:       *)
(* _Metric and CheckpointedValidationHook, driven by the trainer's loop.   *)
(*                                                                         *)
(* Python exceptions are outcomes: every modelled method maps a hook       *)
(* record h to the hook record it leaves behind, and h.exc names the       *)
(* exception that left the method ("none" for a normal return).  The       *)
(* statements of a method that follow a raising statement do not act.      *)
(*                                                                         *)
(* hooks.py does not compile as it stands (line 8 "import import", an      *)
(* unbalanced parenthesis on lines 329, 334 and 443).  These four lines    *)
(* are read with the token repeated once / the parenthesis closed; every   *)
(* other line is modelled as Python would run it, including names that do  *)
(* not resolve (NameError, AttributeError) and operand types that do not   *)
(* compare (TypeError).                                                    *)
(***************************************************************************)
EXTENDS Integers, Sequences, FiniteSets, TLC

VARIABLES
    phase,        \* "none": no hook object; "running"; "raised"; "closed"; "unit"
    at,           \* "pre": the next hook call of the loop is pre_step; "post": the train step
    iteration,    \* trainer.iteration
    files,        \* checkpoint files (regular files ckpt_<iteration>) of the directory
    links,        \* symlinks of the directory: symlink path -> target path
    json,         \* content of ckpt_state.json, or NoFile
    metrics,      \* the metrics argument: sequence of <<key, criterion>> (dict order)
    keep_all,     \* self._keep_all
    period,       \* period of the validation trigger (unit 'iteration')
    latest,       \* self.latest_checkpoint
    mvalue,       \* key -> _Metric._value
    msymlink,     \* key -> _Metric._symlink_name
    summary,      \* self.summary['scalars']: key -> list of scalars
    last,         \* self.trigger.last: the iteration the trigger was last asked about
    saved,        \* the checkpoint trainer.save_checkpoint wrote last
    expected,     \* key -> what the documented contract makes the tracker hold
    exc,          \* exception that left the last call, "none" if it returned
    steps,        \* what the last call did, in the order it did it
    hooks,        \* the hooks the trainer dispatches to, in the order it calls them
    pos,          \* index in hooks of the hook whose pre_step is called next
    end_at,       \* the iteration the EndTrigger of the StopTrainingHook is set to
    last_checkpoint_path,  \* SimpleCheckpointHook.last_checkpoint_path
    timings,      \* len(trainer.timer.timings); the single-hook session and the
                  \* unit calls run with a timer that is empty
    summary_hook, \* the SummaryHook object of the loop, or None
    call,         \* the last call made and its inputs
    ret           \* what the last call returned (unit calls of _Metric)

vars == <<phase, at, iteration, files, links, json, metrics, keep_all, period,
          latest, mvalue, msymlink, summary, last, saved, expected, exc, steps,
          hooks, pos, end_at, last_checkpoint_path, timings, summary_hook,
          call, ret>>

(***************************************************************************)
(* Bounds of the model.                                                    *)
(***************************************************************************)
MaxIter == 2
MaxPeriod == 2
MaxVal == 2
MaxReviews == 1

(***************************************************************************)
(* Values.                                                                 *)
(***************************************************************************)
\* float('inf'): above every finite scalar of the model
Inf == 1000
NegInf == -Inf
\* the finite scalars of the model, and the floats a tracker may be handed
Scalars == 1..MaxVal
Floats == Scalars \cup {Inf, NegInf}

None == [kind |-> "None"]
NoFile == [kind |-> "absent"]
NoExc == "none"

PyFloat(v) == [type |-> "float", val |-> v]
PyList(s) == [type |-> "list", val |-> s]

MetricKeys == {"loss", "acc"}
Criteria == {"min", "max"}

\* the metrics dicts a hook may be configured with: non-empty, keys distinct
MetricConfigs ==
    { <<<<k, c>>>> : k \in MetricKeys, c \in Criteria }
    \cup { <<<<"loss", c1>>, <<"acc", c2>>>> : c1 \in Criteria, c2 \in Criteria }

Keys(ms) == { ms[i][1] : i \in 1..Len(ms) }
CriterionOf(ms, k) == ms[CHOOSE i \in 1..Len(ms) : ms[i][1] = k][2]

\* an exception leaves the method
Raise(h, e) == [h EXCEPT !.exc = e]

\* the method did something: the trace of the call grows
Did(h, op, arg) == [h EXCEPT !.steps = Append(@, [op |-> op, arg |-> arg])]

\* str(path) and Path(string)
Str(p) == [str |-> p]
Path(s) == s.str

(***************************************************************************)
(* The trainer's side of the interface (padertorch.train.trainer and        *)
(* padertorch.train.trigger are not part of the sources at hand).           *)
(***************************************************************************)
\* trainer.default_checkpoint_path(): the checkpoint file of the iteration
default_checkpoint_path(it) == [kind |-> "ckpt", it |-> it]

\* IntervalTrigger(period, 'iteration') asked at an iteration, when it was last
\* asked at iteration l: fires every period-th iteration, once per iteration and
\* not at the iteration the session starts from
IntervalTrigger(p, l, it) == it # l /\ it % p = 0

\* trainer.save_checkpoint(path): the file exists afterwards, or the write
\* fails (disk full, no permission) and the error leaves the call
save_checkpoint(h, path) ==
    IF h.save_fails THEN Raise(h, "OSError")
    ELSE Did([h EXCEPT !.files = @ \cup {path}, !.saved = path],
             "save_checkpoint", path)

\* what a validation pass can yield: up to MaxReviews reviews, each with a
\* scalar for every configured metric
Reviews(ms) == [Keys(ms) -> Scalars]
ReviewSeqs(ms) == UNION { [1..n -> Reviews(ms)] : n \in 0..MaxReviews }

(***************************************************************************)
(* The hook record: what a call reads and writes.                          *)
(***************************************************************************)
\* the hook at the start of a call, in an environment where no write fails
\* and nobody else touches the directory
Hook ==
    [files |-> files, links |-> links, json |-> json, latest |-> latest,
     value |-> mvalue, symlink_name |-> msymlink, summary |-> summary,
     last |-> last, saved |-> saved, exc |-> NoExc, steps |-> <<>>,
     last_checkpoint_path |-> last_checkpoint_path,
     timings |-> timings, summary_hook |-> summary_hook,
     save_fails |-> FALSE, vanished |-> None, listed_before |-> {}]

\* pathlib.Path.resolve(): follows the symlink when there is one
resolve(h, p) == IF p \in DOMAIN h.links THEN h.links[p] ELSE p

(***************************************************************************)
(* class _Metric                                                           *)
(***************************************************************************)
\* _Metric.__init__: the initial _value (the _symlink_name is None)
_Metric__init__(criterion) == IF criterion = "min" THEN Inf ELSE NegInf

_Metric_paths(h, k) ==
    IF h.symlink_name[k] # None THEN <<resolve(h, h.symlink_name[k])>> ELSE <<>>

_Metric_values(h, k) ==
    IF h.value[k] # Inf /\ h.value[k] # NegInf THEN <<h.value[k]>> ELSE <<>>

\* is_better with strict comparisons: a tie is rejected
_Metric_is_better_strict(h, k, value) ==
    IF value.type # "float"
    THEN [exc |-> "TypeError", ret |-> FALSE]
    ELSE IF CriterionOf(metrics, k) = "min"
         THEN [exc |-> NoExc, ret |-> value.val < h.value[k]]
         ELSE [exc |-> NoExc, ret |-> value.val > h.value[k]]

\* is_better(value): [exc, ret].  A float compares; a list against the float
\* _value is a TypeError.
_Metric_is_better(h, k, value) ==
    IF value.type # "float"
    THEN [exc |-> "TypeError", ret |-> FALSE]
    ELSE IF CriterionOf(metrics, k) = "min"
         THEN [exc |-> NoExc, ret |-> value.val <= h.value[k]]
         ELSE [exc |-> NoExc, ret |-> value.val >= h.value[k]]

\* the path is built from a plain string, not an f-string: the key is not in it
_get_symlink_path(k, checkpoint_path) ==
    [kind |-> "symlink", name |-> "ckpt_best_{self._key}"]

\* update(value, checkpoint_path): line 307 stores the value, line 308 calls
\* self._get_symlink_name, which _Metric does not define: AttributeError.
\* Lines 309-312 (unlink, symlink_to) are not reached.
_Metric_update(h, k, value, checkpoint_path) ==
    Raise(Did([h EXCEPT !.value[k] = value], "update", checkpoint_path),
          "AttributeError")

_Metric_to_json(h, k) ==
    LET ps == _Metric_paths(h, k) IN
    [key |-> k,
     criterion |-> CriterionOf(metrics, k),
     values |-> _Metric_values(h, k),
     paths |-> [i \in 1..Len(ps) |-> Str(ps[i])]]

\* set_state that restores whatever it is handed once key and criterion match
_Metric_set_state_restores(h, k, state_dict) ==
    IF k # state_dict.key THEN Raise(h, "AssertionError")
    ELSE IF CriterionOf(metrics, k) # state_dict.criterion
         THEN Raise(h, "AssertionError")
    ELSE IF Len(state_dict.paths) = 0 THEN [h EXCEPT !.symlink_name[k] = None]
    ELSE [h EXCEPT !.symlink_name[k] = _get_symlink_path(k, Path(state_dict.paths[1])),
                   !.value[k] = IF Len(state_dict.values) > 0
                                THEN state_dict.values[1] ELSE @]

\* set_state without the assertion on the criterion
_Metric_set_state_criterion_not_compared(h, k, state_dict) ==
    IF k # state_dict.key THEN Raise(h, "AssertionError")
    ELSE Raise(h, "NameError")

\* set_state(state_dict), on the tracker with key k: the two assertions on key
\* and criterion, then line 328 evaluates the name `none`: NameError.  Lines
\* 329-337 are not reached.
_Metric_set_state(h, k, state_dict) ==
    IF k # state_dict.key THEN Raise(h, "AssertionError")
    ELSE IF CriterionOf(metrics, k) # state_dict.criterion
         THEN Raise(h, "AssertionError")
    ELSE Raise(h, "NameError")

(***************************************************************************)
(* class SummaryHook / ValidationHook                                      *)
(***************************************************************************)
empty_summary_dict(ms) == [k \in Keys(ms) |-> <<>>]

reset_summary(h) == [h EXCEPT !.summary = empty_summary_dict(metrics)]

\* update_summary(review): the scalars of the review are appended
update_summary(h, review) ==
    [h EXCEPT !.summary = [k \in DOMAIN @ |-> Append(@[k], review[k])]]

\* SummaryHook.dump_summary that leaves the summary as it is
SummaryHook_dump_summary_not_reset(h) ==
    Did([h EXCEPT !.timings = 0], "SummaryHook.dump_summary", None)

\* SummaryHook.dump_summary: the writer calls leave the hook alone, then the
\* summary is reset and the trainer's timer with it
SummaryHook_dump_summary(h) ==
    Did([reset_summary(h) EXCEPT !.timings = 0], "SummaryHook.dump_summary", None)

(***************************************************************************)
(* class CheckpointedValidationHook                                        *)
(***************************************************************************)
best_checkpoints(h) ==
    { _Metric_paths(h, k)[1] : k \in { x \in DOMAIN h.value : _Metric_paths(h, x) # <<>> } }

\* the checkpoint is saved, latest_checkpoint is not set to it
_save_latest_checkpoint_not_recorded(h, it) ==
    save_checkpoint(h, default_checkpoint_path(it))

\* the checkpoint is saved and the one saved before it is unlinked, as
\* SimpleCheckpointHook.pre_step does
_save_latest_checkpoint_unlink_previous(h, it) ==
    LET checkpoint_path == default_checkpoint_path(it)
        h1 == save_checkpoint(h, checkpoint_path)
    IN  IF h1.exc # NoExc THEN h1
        ELSE [h1 EXCEPT !.files = { f \in @ : f = checkpoint_path \/ f # h.latest },
                        !.latest = checkpoint_path]

\* latest_checkpoint is set before the checkpoint is written
_save_latest_checkpoint_recorded_first(h, it) ==
    LET checkpoint_path == default_checkpoint_path(it) IN
    save_checkpoint([h EXCEPT !.latest = checkpoint_path], checkpoint_path)

_save_latest_checkpoint(h, it) ==
    LET checkpoint_path == default_checkpoint_path(it)
        h1 == save_checkpoint(h, checkpoint_path)
    IN  IF h1.exc # NoExc THEN h1
        ELSE [h1 EXCEPT !.latest = checkpoint_path]

\* the loop over self.metrics.items(), from the i-th metric on.  The candidate
\* handed to is_better is the list summary['scalars'][key]; the argument
\* `value` of the update call is a name the method never binds: NameError
\* before update is entered.
RECURSIVE _update_validated_checkpoints_from(_, _)
_update_validated_checkpoints_from(h, i) ==
    IF i > Len(metrics) THEN h
    ELSE LET k == metrics[i][1]
             summary_value == PyList(h.summary[k])
             b == _Metric_is_better(h, k, summary_value)
             h1 == Did(h, "is_better", [key |-> k, value |-> summary_value])
         IN  IF b.exc # NoExc THEN Raise(h1, b.exc)
             ELSE IF b.ret THEN Raise(h1, "NameError")
             ELSE _update_validated_checkpoints_from(h1, i + 1)

_update_validated_checkpoints(h) == _update_validated_checkpoints_from(h, 1)

\* ckpt_state.json as a path of the checkpoint directory
JsonFile == [kind |-> "json"]

\* glob('ckpt_*') lists the checkpoint files, the symlinks and ckpt_state.json;
\* the regular files among them that are not in used_checkpoints are unlinked,
\* one after the other in the order glob listed them.  When another process
\* has removed the file h.vanished since the listing, its unlink raises
\* FileNotFoundError, which nothing catches: the files listed before it
\* (h.listed_before) are gone, the ones after it stay.
_cleanup_stale_checkpoints(h) ==
    IF keep_all THEN Did(h, "_cleanup_stale_checkpoints", {})
    ELSE IF h.latest = None THEN Raise(h, "AttributeError")
    ELSE LET used_checkpoints == best_checkpoints(h) \cup {h.latest}
             stored_checkpoints ==
                 h.files \cup (IF h.json # NoFile THEN {JsonFile} ELSE {})
             stale == { f \in stored_checkpoints : f \notin used_checkpoints }
             raises == h.vanished \in stale
             unlinked == IF raises THEN stale \cap h.listed_before ELSE stale
             gone == IF raises THEN unlinked \cup {h.vanished} ELSE unlinked
             h1 == Did([h EXCEPT !.files = { f \in @ : f \notin gone },
                                 !.json = IF JsonFile \in gone THEN NoFile ELSE @],
                       "_cleanup_stale_checkpoints", unlinked)
         IN  IF raises THEN Raise(h1, "FileNotFoundError") ELSE h1

dump_json(h) ==
    IF h.latest = None THEN Raise(h, "AttributeError")
    ELSE Did([h EXCEPT !.json =
                [latest_checkpoint_path |-> Str(h.latest),
                 metrics |-> [k \in DOMAIN h.value |-> _Metric_to_json(h, k)]]],
             "dump_json", h.latest)

\* CheckpointedValidationHook.dump_summary
dump_summary(h) ==
    LET h1 == _update_validated_checkpoints(h) IN
    IF h1.exc # NoExc THEN h1
    ELSE LET h2 == SummaryHook_dump_summary(h1)
             h3 == _cleanup_stale_checkpoints(h2)
         IN  IF h3.exc # NoExc THEN h3 ELSE dump_json(h3)

RECURSIVE validate(_, _, _)
validate(h, reviews, i) ==
    IF i > Len(reviews) THEN h
    ELSE validate(update_summary(h, reviews[i]), reviews, i + 1)

ValidationHook_pre_step(cls, h, it, reviews) ==
    IF \E k \in DOMAIN h.summary : Len(h.summary[k]) # 0
    THEN Raise(h, "AssertionError")
    ELSE LET h1 == [h EXCEPT !.last = it] IN
         IF ~IntervalTrigger(period, h.last, it) THEN h1
         ELSE IF h1.timings # 0 THEN Raise(h1, "AssertionError")
         ELSE LET h2 == validate(Did(h1, "validate", Len(reviews)), reviews, 1)
                  h3 == IF cls = "CheckpointedValidationHook"
                        THEN dump_summary(h2)
                        ELSE SummaryHook_dump_summary(h2)
              IN  IF h3.exc # NoExc THEN h3
                  ELSE IF h3.timings # 0 THEN Raise(h3, "AssertionError")
                  ELSE h3

pre_step(h, it, reviews) ==
    LET h1 == _save_latest_checkpoint(h, it) IN
    IF h1.exc # NoExc THEN h1
    ELSE ValidationHook_pre_step("CheckpointedValidationHook", h1, it, reviews)

\* close that records the path of the iteration without saving the checkpoint
close_without_save(h, it) ==
    dump_json([h EXCEPT !.latest = default_checkpoint_path(it)])

\* close that garbage-collects before it writes the JSON
close_with_cleanup(h, it) ==
    LET h1 == _save_latest_checkpoint(h, it) IN
    IF h1.exc # NoExc THEN h1
    ELSE dump_json([h1 EXCEPT !.files = {h1.latest}])

close(h, it) ==
    LET h1 == _save_latest_checkpoint(h, it) IN
    IF h1.exc # NoExc THEN h1 ELSE dump_json(h1)

\* BaseHook.set_last(iteration, epoch), called by the trainer when it resumes
set_last(h, it) == [h EXCEPT !.last = it]

\* the metrics arguments a hook may be constructed with: a dict (possibly
\* empty), None (the default), or something that is not a dict
PyDict(ms) == [type |-> "dict", val |-> ms]
PyNone == [type |-> "NoneType", val |-> <<>>]
MetricsArgs ==
    { PyDict(ms) : ms \in MetricConfigs \cup {<<>>} }
    \cup {PyNone, PyList(<<"loss">>)}

\* the fields of a new hook in the directory d (the files, links, json of d)
NewHook(d, ms) ==
    [d EXCEPT !.value = [k \in Keys(ms) |-> _Metric__init__(CriterionOf(ms, k))],
              !.symlink_name = [k \in Keys(ms) |-> None],
              !.summary = empty_summary_dict(ms),
              !.latest = None,
              !.last = 0,
              !.exc = NoExc]

\* __init__ without the assertion on the two key sets
__init___keys_not_compared(d, metrics_arg, init_from_json) ==
    IF ~(metrics_arg.type = "dict" /\ Len(metrics_arg.val) > 0)
    THEN Raise(d, "AssertionError")
    ELSE LET h == NewHook(d, metrics_arg.val) IN
         IF ~init_from_json THEN h
         ELSE IF d.json = NoFile THEN Raise(h, "FileNotFoundError")
         ELSE Raise([Did(h, "open", JsonFile) EXCEPT
                        !.latest = Path(d.json.latest_checkpoint_path)],
                    "AttributeError")

\* __init__ that asserts isinstance(metrics, dict) only
__init___empty_dict_accepted(d, metrics_arg, init_from_json) ==
    IF metrics_arg.type # "dict"
    THEN Raise(d, "AssertionError")
    ELSE LET h == NewHook(d, metrics_arg.val) IN
         IF ~init_from_json THEN h
         ELSE IF d.json = NoFile THEN Raise(h, "FileNotFoundError")
         ELSE LET h1 == [Did(h, "open", JsonFile) EXCEPT
                            !.latest = Path(d.json.latest_checkpoint_path)]
              IN  IF Keys(metrics_arg.val) # DOMAIN d.json.metrics
                  THEN Raise(h1, "AssertionError")
                  ELSE Raise(h1, "AttributeError")

\* __init__(trigger, iterator, metrics, keep_all, init_from_json, trainer):
\* the assertion on the metrics argument comes before anything else.  With
\* init_from_json the JSON is opened, the key sets are compared, and the loop
\* of line 366 runs over the metrics argument, whose values are the criterion
\* strings: 'str' has no set_state, AttributeError.
__init__(d, metrics_arg, init_from_json) ==
    IF ~(metrics_arg.type = "dict" /\ Len(metrics_arg.val) > 0)
    THEN Raise(d, "AssertionError")
    ELSE LET h == NewHook(d, metrics_arg.val) IN
         IF ~init_from_json THEN h
         ELSE IF d.json = NoFile THEN Raise(h, "FileNotFoundError")
         ELSE LET h1 == [Did(h, "open", JsonFile) EXCEPT
                            !.latest = Path(d.json.latest_checkpoint_path)]
              IN  IF Keys(metrics_arg.val) # DOMAIN d.json.metrics
                  THEN Raise(h1, "AssertionError")
                  ELSE Raise(h1, "AttributeError")

(***************************************************************************)
(* class Priority and the priority property of the hook classes            *)
(***************************************************************************)
Priority ==
    [END |-> 10, DEFAULT |-> 15, VALIDATION |-> 20, CHECKPOINT |-> 25,
     PROGRESS |-> 30, PRINT |-> 40, SUMMARY |-> 50]

HookClasses ==
    {"BaseHook", "SummaryHook", "SimpleCheckpointHook", "ValidationHook",
     "CheckpointedValidationHook", "ProgressBarHook", "StopTrainingHook"}

\* StopTrainingHook without its priority property: it has BaseHook's
priority_end_not_overridden(cls) ==
    CASE cls = "SummaryHook" -> Priority.SUMMARY
      [] cls = "SimpleCheckpointHook" -> Priority.CHECKPOINT
      [] cls \in {"ValidationHook", "CheckpointedValidationHook"} -> Priority.VALIDATION
      [] cls = "ProgressBarHook" -> Priority.PROGRESS
      [] OTHER -> Priority.DEFAULT

\* SummaryHook without its priority property: it has BaseHook's
priority_summary_not_overridden(cls) ==
    CASE cls \in {"BaseHook", "SummaryHook"} -> Priority.DEFAULT
      [] cls = "SimpleCheckpointHook" -> Priority.CHECKPOINT
      [] cls \in {"ValidationHook", "CheckpointedValidationHook"} -> Priority.VALIDATION
      [] cls = "ProgressBarHook" -> Priority.PROGRESS
      [] cls = "StopTrainingHook" -> Priority.END

\* hook.priority: CheckpointedValidationHook defines none and has the one of
\* ValidationHook
priority(cls) ==
    CASE cls = "BaseHook" -> Priority.DEFAULT
      [] cls = "SummaryHook" -> Priority.SUMMARY
      [] cls = "SimpleCheckpointHook" -> Priority.CHECKPOINT
      [] cls \in {"ValidationHook", "CheckpointedValidationHook"} -> Priority.VALIDATION
      [] cls = "ProgressBarHook" -> Priority.PROGRESS
      [] cls = "StopTrainingHook" -> Priority.END

(***************************************************************************)
(* class SimpleCheckpointHook, class StopTrainingHook                      *)
(***************************************************************************)
\* SimpleCheckpointHook.pre_step: the trigger is not asked.  With keep_all
\* false the checkpoint of the call before is unlinked; on the first call
\* last_checkpoint_path is None, which has no exists(): AttributeError.
SimpleCheckpointHook_pre_step(h, it) ==
    LET checkpoint_path == default_checkpoint_path(it)
        h1 == save_checkpoint(h, checkpoint_path)
    IN  IF h1.exc # NoExc THEN h1
        ELSE IF keep_all THEN [h1 EXCEPT !.last_checkpoint_path = checkpoint_path]
        ELSE IF h1.last_checkpoint_path = None THEN Raise(h1, "AttributeError")
        ELSE [h1 EXCEPT !.files = { f \in @ : f # h1.last_checkpoint_path },
                        !.last_checkpoint_path = checkpoint_path]

\* EndTrigger(n, 'iteration') asked at an iteration: fires once n is reached
EndTrigger(n, it) == it >= n

\* the signal is raised one iteration after the trigger fires
StopTrainingHook_pre_step_late(h, it) ==
    IF EndTrigger(end_at + 1, it) THEN Raise(h, "StopTraining") ELSE h

StopTrainingHook_pre_step(h, it) ==
    IF EndTrigger(end_at, it) THEN Raise(h, "StopTraining") ELSE h

\* BaseHook.pre_step, BaseHook.post_step, BaseHook.close: pass
BaseHook_pre_step(h) == h

(***************************************************************************)
(* The SummaryHook object of a loop: [period, validate, last, collected,   *)
(* storage_dir].  period is the period of its trigger, validate the period  *)
(* of the validate argument (0 for None), last the iteration its trigger    *)
(* was last asked at, collected the number of reviews update_summary has    *)
(* appended since the last reset.                                           *)
(***************************************************************************)
\* SummaryHook.__init__(trigger, validate): the trigger is the interval trigger,
\* or the OrTrigger of the two
SummaryHook__init__(trigger, validate_trigger) ==
    [period |-> trigger, validate |-> validate_trigger, last |-> 0, collected |-> 0,
     storage_dir |-> "unset"]

\* OrTrigger: fires if one of its triggers fires
OrTrigger(sh, it) ==
    \/ IntervalTrigger(sh.period, sh.last, it)
    \/ sh.validate # 0 /\ IntervalTrigger(sh.validate, sh.last, it)

\* pre_step without the test for iteration 1
SummaryHook_pre_step_trigger_only(h, it) ==
    LET h1 == [h EXCEPT !.summary_hook.last = it] IN
    IF OrTrigger(h.summary_hook, it)
    THEN Did([h1 EXCEPT !.summary_hook.collected = 0, !.timings = 0],
             "SummaryHook.dump_summary", None)
    ELSE h1

\* SummaryHook.pre_step: dump_summary (which resets the summary and the timer)
\* when the trigger fires or trainer.iteration == 1
SummaryHook_pre_step(h, it) ==
    LET h1 == [h EXCEPT !.summary_hook.last = it] IN
    IF OrTrigger(h.summary_hook, it) \/ it = 1
    THEN Did([h1 EXCEPT !.summary_hook.collected = 0, !.timings = 0],
             "SummaryHook.dump_summary", None)
    ELSE h1

\* SummaryHook.post_step: the storage directory is taken from the trainer, the
\* review is appended to the summary
SummaryHook_post_step(sh) ==
    [sh EXCEPT !.storage_dir = "storage_dir", !.collected = @ + 1]

\* SummaryHook.close: dump_summary
SummaryHook_close(h) ==
    Did([h EXCEPT !.summary_hook.collected = 0, !.timings = 0],
        "SummaryHook.dump_summary", None)

(***************************************************************************)
(* class ProgressBarHook: the constructor, as [exc, pbar]                  *)
(***************************************************************************)
UnknownLength == [kind |-> "UnknownLength"]

\* __init__ that takes every unit it does not know for an epoch of unknown
\* length
ProgressBarHook__init___any_unit(max_trigger, max_it_len) ==
    IF max_trigger.type \notin {"EndTrigger", "tuple", "list"}
    THEN [exc |-> "ValueError", pbar |-> None]
    ELSE IF max_trigger.unit = "iteration"
         THEN [exc |-> NoExc, pbar |-> [max_value |-> max_trigger.length]]
         ELSE [exc |-> NoExc, pbar |-> [max_value |-> UnknownLength]]

\* __init__(max_trigger, max_it_len): length and unit are taken from an
\* EndTrigger or a pair; anything else and any unit but 'iteration' and
\* 'epoch' is a ValueError, raised before the progress bar is made
\* (max_it_len 0 stands for None)
ProgressBarHook__init__(max_trigger, max_it_len) ==
    IF max_trigger.type \notin {"EndTrigger", "tuple", "list"}
    THEN [exc |-> "ValueError", pbar |-> None]
    ELSE IF max_trigger.unit = "iteration"
         THEN [exc |-> NoExc, pbar |-> [max_value |-> max_trigger.length]]
    ELSE IF max_trigger.unit = "epoch"
         THEN IF max_it_len # 0
              THEN [exc |-> NoExc,
                    pbar |-> [max_value |-> max_trigger.length * max_it_len]]
              ELSE [exc |-> NoExc, pbar |-> [max_value |-> UnknownLength]]
    ELSE [exc |-> "ValueError", pbar |-> None]

(***************************************************************************)
(* The documented contract of a tracker, kept beside the hook: accept a    *)
(* candidate that is no worse than the best (ties replace), then hold the  *)
(* candidate and the checkpoint of the round.  The candidate of a metric   *)
(* is the mean of the scalars the validation pass collected for it.        *)
(***************************************************************************)
RECURSIVE SumOf(_, _, _)
SumOf(reviews, k, i) ==
    IF i > Len(reviews) THEN 0 ELSE reviews[i][k] + SumOf(reviews, k, i + 1)

\* the mean is a scalar of the model
HasCandidate(reviews, k) ==
    Len(reviews) > 0 /\ SumOf(reviews, k, 1) % Len(reviews) = 0

Candidate(reviews, k) == SumOf(reviews, k, 1) \div Len(reviews)

NoWorse(criterion, candidate, best) ==
    IF criterion = "min" THEN candidate <= best ELSE candidate >= best

ExpectedAfter(exp, reviews, ckpt) ==
    [k \in DOMAIN exp |->
        IF ~HasCandidate(reviews, k) THEN exp[k]
        ELSE IF exp[k] = None
                \/ NoWorse(CriterionOf(metrics, k), Candidate(reviews, k), exp[k].value)
             THEN [value |-> Candidate(reviews, k), ckpt |-> ckpt]
             ELSE exp[k]]

\* what a tracker restored from the persisted entry holds
ExpectedFromJson(j, ms) ==
    [k \in Keys(ms) |->
        IF Len(j.metrics[k].paths) = 0 THEN None
        ELSE [value |-> j.metrics[k].values[1], ckpt |-> Path(j.metrics[k].paths[1])]]

(***************************************************************************)
(* The session: the trainer's loop around the hook.                        *)
(***************************************************************************)
Assign(h) ==
    /\ files' = h.files
    /\ links' = h.links
    /\ json' = h.json
    /\ latest' = h.latest
    /\ mvalue' = h.value
    /\ msymlink' = h.symlink_name
    /\ summary' = h.summary
    /\ last' = h.last
    /\ saved' = h.saved
    /\ exc' = h.exc
    /\ steps' = h.steps
    /\ last_checkpoint_path' = h.last_checkpoint_path
    /\ timings' = h.timings
    /\ summary_hook' = h.summary_hook

\* no hook object: the directory is all there is
NoObject ==
    /\ metrics' = <<>>
    /\ keep_all' = FALSE
    /\ period' = 1
    /\ latest' = None
    /\ mvalue' = <<>>
    /\ msymlink' = <<>>
    /\ summary' = <<>>
    /\ last' = 0
    /\ expected' = <<>>
    /\ UNCHANGED <<files, links, json, saved, last_checkpoint_path, timings,
                   summary_hook>>

\* the session and the unit calls have one hook and no dispatch
LoopFrame == UNCHANGED <<hooks, pos, end_at>>

Init ==
    /\ phase = "none"
    /\ at = "pre"
    /\ iteration = 0
    /\ files = {}
    /\ links = <<>>
    /\ json = NoFile
    /\ metrics = <<>>
    /\ keep_all = FALSE
    /\ period = 1
    /\ latest = None
    /\ mvalue = <<>>
    /\ msymlink = <<>>
    /\ summary = <<>>
    /\ last = 0
    /\ saved = None
    /\ expected = <<>>
    /\ exc = NoExc
    /\ steps = <<>>
    /\ hooks = <<>>
    /\ pos = 0
    /\ end_at = 0
    /\ last_checkpoint_path = None
    /\ timings = 0
    /\ summary_hook = None
    /\ call = [op |-> "none"]
    /\ ret = None

\* CheckpointedValidationHook(trigger, iterator, metrics, keep_all, init_from_json, trainer),
\* and the trainer's set_last at the iteration it starts from
Construct(metrics_arg, ka, p, init_from_json) ==
    /\ phase = "none"
    /\ LET h == __init__(Hook, metrics_arg, init_from_json) IN
       IF h.exc = NoExc
       THEN /\ phase' = "running"
            /\ metrics' = metrics_arg.val
            /\ keep_all' = ka
            /\ period' = p
            /\ Assign(set_last(h, iteration))
            /\ expected' = IF init_from_json
                           THEN ExpectedFromJson(json, metrics_arg.val)
                           ELSE [k \in Keys(metrics_arg.val) |-> None]
       ELSE /\ phase' = "none"
            /\ NoObject
            /\ exc' = h.exc
            /\ steps' = h.steps
    /\ call' = [op |-> "__init__", arg |-> metrics_arg,
                metrics |-> IF metrics_arg.type = "dict" THEN metrics_arg.val ELSE <<>>,
                init_from_json |-> init_from_json]
    /\ UNCHANGED <<at, iteration, ret>>
    /\ LoopFrame

\* for hook in hooks: hook.pre_step(trainer); save_fails: the trainer cannot
\* write the checkpoint
PreStep(reviews, save_fails) ==
    /\ phase = "running"
    /\ at = "pre"
    /\ LET h == pre_step([Hook EXCEPT !.save_fails = save_fails], iteration, reviews)
           fired == ~save_fails /\ IntervalTrigger(period, last, iteration)
       IN  /\ Assign(h)
           /\ phase' = IF h.exc = NoExc THEN "running" ELSE "raised"
           /\ expected' = IF fired THEN ExpectedAfter(expected, reviews, h.saved)
                                   ELSE expected
           /\ call' = [op |-> "pre_step", fired |-> fired, reviews |-> reviews,
                       save_fails |-> save_fails]
    /\ at' = "post"
    /\ UNCHANGED <<iteration, metrics, keep_all, period, ret>>
    /\ LoopFrame

\* the train step and the post_step calls (ValidationHook.post_step is `pass`),
\* then the next iteration
TrainStep ==
    /\ phase = "running"
    /\ at = "post"
    /\ iteration < MaxIter
    /\ iteration' = iteration + 1
    /\ at' = "pre"
    /\ call' = [op |-> "train_step"]
    /\ UNCHANGED <<phase, files, links, json, metrics, keep_all, period, latest,
                   mvalue, msymlink, summary, last, saved, expected, exc, steps, ret,
                   last_checkpoint_path, timings, summary_hook>>
    /\ LoopFrame

\* hook.close(trainer), at the end of the loop or when an exception leaves it
Close(save_fails) ==
    /\ phase \in {"running", "raised"}
    /\ Assign(close([Hook EXCEPT !.save_fails = save_fails], iteration))
    /\ phase' = "closed"
    /\ call' = [op |-> "close", save_fails |-> save_fails]
    /\ UNCHANGED <<at, iteration, metrics, keep_all, period, expected, ret>>
    /\ LoopFrame

\* the process ends (after close, or killed); a later process starts in the
\* same directory, from iteration 0 or from the iteration of a stored checkpoint
ProcessExit ==
    /\ phase \in {"running", "raised", "closed"}
    /\ phase' = "none"
    /\ NoObject
    /\ exc' = NoExc
    /\ steps' = <<>>
    /\ at' = "pre"
    /\ iteration' \in {0} \cup { f.it : f \in files }
    /\ call' = [op |-> "exit"]
    /\ UNCHANGED ret
    /\ LoopFrame

Next ==
    \/ \E metrics_arg \in MetricsArgs, ka \in BOOLEAN, p \in 1..MaxPeriod,
          init_from_json \in BOOLEAN :
          Construct(metrics_arg, ka, p, init_from_json)
    \/ \E reviews \in ReviewSeqs(metrics), save_fails \in BOOLEAN :
          /\ (~(~save_fails /\ IntervalTrigger(period, last, iteration)) => reviews = <<>>)
          /\ PreStep(reviews, save_fails)
    \/ TrainStep
    \/ \E save_fails \in BOOLEAN : Close(save_fails)
    \/ ProcessExit

Spec == Init /\ [][Next]_vars

(***************************************************************************)
(* The methods on their own: the methods of _Metric, and the garbage        *)
(* collection of the hook, called one at a time on a hook beside checkpoint *)
(* files the trainer has written.  A call that raises leaves the object as  *)
(* the exception left it.                                                   *)
(***************************************************************************)
\* the checkpoints of the first two iterations
CheckpointPaths == { default_checkpoint_path(i) : i \in 0..1 }

\* the dictionaries set_state may be handed
StateDicts ==
    [key : MetricKeys, criterion : Criteria,
     values : {<<>>, <<1, 2>>} \cup { <<v>> : v \in Scalars },
     paths : {<<>>, <<Str(default_checkpoint_path(0)), Str(default_checkpoint_path(1))>>}
             \cup { <<Str(cp)>> : cp \in CheckpointPaths }]

InitUnit ==
    /\ phase = "unit"
    /\ at = "pre"
    /\ iteration = 0
    /\ \E n \in 0..1 : files = { default_checkpoint_path(i) : i \in 0..n }
    /\ links = <<>>
    /\ json = NoFile
    /\ metrics \in MetricConfigs
    /\ keep_all = FALSE
    /\ period = 1
    /\ latest = None
    /\ mvalue = [k \in Keys(metrics) |-> _Metric__init__(CriterionOf(metrics, k))]
    /\ msymlink = [k \in Keys(metrics) |-> None]
    /\ summary = empty_summary_dict(metrics)
    /\ last = 0
    /\ saved = None
    /\ expected = <<>>
    /\ exc = NoExc
    /\ steps = <<>>
    /\ hooks = <<>>
    /\ pos = 0
    /\ end_at = 0
    /\ last_checkpoint_path = None
    /\ timings = 0
    /\ summary_hook = None
    /\ call = [op |-> "none"]
    /\ ret = None

UnitFrame ==
    UNCHANGED <<phase, at, iteration, metrics, keep_all, period, expected,
                hooks, pos, end_at>>

\* metric.is_better(v)
UnitIsBetter(k, v) ==
    /\ phase = "unit"
    /\ LET b == _Metric_is_better(Hook, k, PyFloat(v)) IN
       /\ ret' = b.ret
       /\ exc' = b.exc
    /\ call' = [op |-> "is_better", key |-> k, value |-> v]
    /\ UNCHANGED <<files, links, json, latest, mvalue, msymlink, summary, last,
                   saved, steps, last_checkpoint_path, timings, summary_hook>>
    /\ UnitFrame

\* metric.update(v, checkpoint_path)
UnitUpdate(k, v, checkpoint_path) ==
    /\ phase = "unit"
    /\ Assign(_Metric_update(Hook, k, v, checkpoint_path))
    /\ call' = [op |-> "update", key |-> k, value |-> v, path |-> checkpoint_path]
    /\ ret' = None
    /\ UnitFrame

\* metric.to_json()
UnitToJson(k) ==
    /\ phase = "unit"
    /\ ret' = _Metric_to_json(Hook, k)
    /\ exc' = NoExc
    /\ call' = [op |-> "to_json", key |-> k]
    /\ UNCHANGED <<files, links, json, latest, mvalue, msymlink, summary, last,
                   saved, steps, last_checkpoint_path, timings, summary_hook>>
    /\ UnitFrame

\* metric.set_state(state_dict)
UnitSetState(k, state_dict) ==
    /\ phase = "unit"
    /\ Assign(_Metric_set_state(Hook, k, state_dict))
    /\ call' = [op |-> "set_state", key |-> k, state_dict |-> state_dict]
    /\ ret' = None
    /\ UnitFrame

\* _Metric(key, criterion).set_state(metric.to_json()): the tracker the call
\* leaves behind is returned, the tracker it was taken from stays
UnitRoundTrip(k) ==
    /\ phase = "unit"
    /\ LET fresh == [Hook EXCEPT !.value[k] = _Metric__init__(CriterionOf(metrics, k)),
                                 !.symlink_name[k] = None]
           r == _Metric_set_state(fresh, k, _Metric_to_json(Hook, k))
       IN  /\ ret' = [values |-> _Metric_values(r, k), paths |-> _Metric_paths(r, k),
                      symlink_name |-> r.symlink_name[k]]
           /\ exc' = r.exc
    /\ call' = [op |-> "round_trip", key |-> k]
    /\ UNCHANGED <<files, links, json, latest, mvalue, msymlink, summary, last,
                   saved, steps, last_checkpoint_path, timings, summary_hook>>
    /\ UnitFrame

\* metric._get_symlink_path(checkpoint_path)
UnitGetSymlinkPath(k, checkpoint_path) ==
    /\ phase = "unit"
    /\ ret' = _get_symlink_path(k, checkpoint_path)
    /\ exc' = NoExc
    /\ call' = [op |-> "_get_symlink_path", key |-> k, path |-> checkpoint_path]
    /\ UNCHANGED <<files, links, json, latest, mvalue, msymlink, summary, last,
                   saved, steps, last_checkpoint_path, timings, summary_hook>>
    /\ UnitFrame

NextUnit ==
    \/ \E k \in Keys(metrics), v \in Floats : UnitIsBetter(k, v)
    \/ \E k \in Keys(metrics), v \in Floats, cp \in files : UnitUpdate(k, v, cp)
    \/ \E k \in Keys(metrics) : UnitToJson(k)
    \/ \E k \in Keys(metrics), sd \in StateDicts : UnitSetState(k, sd)
    \/ \E k \in Keys(metrics) : UnitRoundTrip(k)
    \/ \E k \in Keys(metrics), cp \in CheckpointPaths : UnitGetSymlinkPath(k, cp)

MetricSpec == InitUnit /\ [][NextUnit]_vars

(***************************************************************************)
(* The garbage collection on its own: _cleanup_stale_checkpoints and        *)
(* dump_json called on a hook that has saved checkpoints, in a directory    *)
(* another process may remove files from.                                   *)
(***************************************************************************)
InitCleanup ==
    /\ phase = "unit"
    /\ at = "pre"
    /\ \E n \in 0..MaxIter :
          /\ iteration = n
          /\ files = { default_checkpoint_path(i) : i \in 0..n }
    /\ links = <<>>
    /\ json = NoFile
    /\ metrics \in MetricConfigs
    /\ keep_all \in BOOLEAN
    /\ period = 1
    /\ latest \in {None, default_checkpoint_path(iteration)}
    /\ mvalue = [k \in Keys(metrics) |-> _Metric__init__(CriterionOf(metrics, k))]
    /\ msymlink = [k \in Keys(metrics) |-> None]
    /\ summary = empty_summary_dict(metrics)
    /\ last = 0
    /\ saved = latest
    /\ expected = <<>>
    /\ exc = NoExc
    /\ steps = <<>>
    /\ hooks = <<>>
    /\ pos = 0
    /\ end_at = 0
    /\ last_checkpoint_path = None
    /\ timings = 0
    /\ summary_hook = None
    /\ call = [op |-> "none"]
    /\ ret = None

\* hook._cleanup_stale_checkpoints(), while another process may remove one of
\* the files glob listed
UnitCleanup(vanished, listed_before) ==
    /\ phase = "unit"
    /\ Assign(_cleanup_stale_checkpoints(
                 [Hook EXCEPT !.vanished = vanished, !.listed_before = listed_before]))
    /\ call' = [op |-> "_cleanup_stale_checkpoints", vanished |-> vanished,
                listed_before |-> listed_before, files |-> files, json |-> json]
    /\ ret' = None
    /\ UnitFrame

\* hook.dump_json()
UnitDumpJson ==
    /\ phase = "unit"
    /\ Assign(dump_json(Hook))
    /\ call' = [op |-> "dump_json"]
    /\ ret' = None
    /\ UnitFrame

NextCleanup ==
    \/ \E vanished \in {None, JsonFile} \cup files,
          listed_before \in SUBSET (files \cup {JsonFile}) :
          /\ vanished \notin listed_before
          /\ UnitCleanup(vanished, listed_before)
    \/ UnitDumpJson

CleanupSpec == InitCleanup /\ [][NextCleanup]_vars

(***************************************************************************)
(* The trainer's loop over several hooks: a StopTrainingHook, at most one   *)
(* checkpointing or validation hook (CheckpointedValidationHook and         *)
(* SimpleCheckpointHook cannot be used together), possibly a SummaryHook    *)
(* and possibly a hook that keeps BaseHook's methods.  keep_all is the      *)
(* keep_all argument and period the trigger of the checkpointing or         *)
(* validation hook.                                                         *)
(* The trainer calls the hooks in descending order of their priority.       *)
(***************************************************************************)
Registrations ==
    { {"StopTrainingHook"} \cup c \cup b :
        c \in {{}, {"CheckpointedValidationHook"}, {"SimpleCheckpointHook"},
               {"ValidationHook"}},
        b \in SUBSET {"BaseHook", "SummaryHook"} }

\* sorted(hooks, key=priority, reverse=True)
DispatchOrders(registered) ==
    { o \in [1..Cardinality(registered) -> registered] :
        /\ \A i, j \in DOMAIN o : i # j => o[i] # o[j]
        /\ \A i, j \in DOMAIN o : i < j => priority(o[i]) >= priority(o[j]) }

InitDispatch ==
    /\ phase = "running"
    /\ at = "pre"
    /\ iteration = 0
    /\ files = {}
    /\ links = <<>>
    /\ json = NoFile
    /\ metrics \in MetricConfigs
    /\ keep_all \in BOOLEAN
    /\ period \in 1..MaxPeriod
    /\ latest = None
    /\ mvalue = [k \in Keys(metrics) |-> _Metric__init__(CriterionOf(metrics, k))]
    /\ msymlink = [k \in Keys(metrics) |-> None]
    /\ summary = empty_summary_dict(metrics)
    /\ last = 0
    /\ saved = None
    /\ expected = <<>>
    /\ exc = NoExc
    /\ steps = <<>>
    /\ \E registered \in Registrations : hooks \in DispatchOrders(registered)
    /\ pos = 1
    /\ end_at \in 1..MaxIter
    /\ last_checkpoint_path = None
    /\ timings = 0
    /\ summary_hook \in
         IF \E i \in DOMAIN hooks : hooks[i] = "SummaryHook"
         THEN { SummaryHook__init__(trigger, validate_trigger) :
                  trigger \in 1..MaxPeriod + 1,
                  validate_trigger \in {0, period} }
         ELSE {None}
    /\ call = [op |-> "none"]
    /\ ret = None

\* hooks[pos].pre_step(trainer); an exception ends the loop
DispatchPreStep(reviews) ==
    /\ phase = "running"
    /\ at = "pre"
    /\ LET cls == hooks[pos]
           fired == cls \in {"ValidationHook", "CheckpointedValidationHook"}
                    /\ IntervalTrigger(period, last, iteration)
           h == CASE cls = "CheckpointedValidationHook" -> pre_step(Hook, iteration, reviews)
                  [] cls = "ValidationHook" ->
                       ValidationHook_pre_step(cls, Hook, iteration, reviews)
                  [] cls = "SummaryHook" -> SummaryHook_pre_step(Hook, iteration)
                  [] cls = "SimpleCheckpointHook" -> SimpleCheckpointHook_pre_step(Hook, iteration)
                  [] cls = "StopTrainingHook" -> StopTrainingHook_pre_step(Hook, iteration)
                  [] OTHER -> BaseHook_pre_step(Hook)
       IN  /\ (~fired => reviews = <<>>)
           /\ Assign(h)
           /\ phase' = IF h.exc = NoExc THEN "running"
                       ELSE IF h.exc = "StopTraining" THEN "stopped" ELSE "raised"
           /\ pos' = IF h.exc = NoExc THEN pos + 1 ELSE pos
           /\ at' = IF h.exc = NoExc /\ pos = Len(hooks) THEN "post" ELSE "pre"
           /\ call' = [op |-> "pre_step", hook |-> cls, fired |-> fired,
                       reviews |-> reviews, save_fails |-> FALSE]
    /\ UNCHANGED <<iteration, metrics, keep_all, period, expected, ret, hooks, end_at>>

\* the train step, which leaves its timings in the trainer's timer, then
\* hook.post_step(...) for every hook in the same order (of the registered
\* classes only SummaryHook does anything in post_step), then the next
\* iteration
DispatchTrainStep ==
    /\ phase = "running"
    /\ at = "post"
    /\ iteration < MaxIter
    /\ iteration' = iteration + 1
    /\ at' = "pre"
    /\ pos' = 1
    /\ steps' = [i \in DOMAIN hooks |-> [op |-> "post_step", arg |-> hooks[i]]]
    /\ exc' = NoExc
    /\ call' = [op |-> "train_step"]
    /\ timings' = 1
    /\ summary_hook' = IF summary_hook = None THEN None
                       ELSE SummaryHook_post_step(summary_hook)
    /\ UNCHANGED <<phase, files, links, json, metrics, keep_all, period, latest,
                   mvalue, msymlink, summary, last, saved, expected, ret,
                   hooks, end_at, last_checkpoint_path>>

\* the loop has ended: hook.close(trainer) for every hook; only
\* SummaryHook.close and CheckpointedValidationHook.close do anything
DispatchClose ==
    /\ phase \in {"stopped", "raised"}
    /\ LET h1 == IF summary_hook = None THEN Hook ELSE SummaryHook_close(Hook) IN
       IF \E i \in DOMAIN hooks : hooks[i] = "CheckpointedValidationHook"
       THEN Assign(close(h1, iteration))
       ELSE Assign(h1)
    /\ phase' = "closed"
    /\ call' = [op |-> "close", save_fails |-> FALSE]
    /\ UNCHANGED <<at, iteration, metrics, keep_all, period, expected, ret,
                   hooks, pos, end_at>>

NextDispatch ==
    \/ \E reviews \in ReviewSeqs(metrics) : DispatchPreStep(reviews)
    \/ DispatchTrainStep
    \/ DispatchClose

DispatchSpec == InitDispatch /\ [][NextDispatch]_vars

\* the trainer goes on as long as it can
FairDispatchSpec == DispatchSpec /\ WF_vars(NextDispatch)

(***************************************************************************)
(* Properties of the session (Spec) and of the trackers (MetricSpec).      *)
(***************************************************************************)
ValidationRoundEnded == call.op = "pre_step" /\ call.fired

\* C1: after each validation round, every metric for which a value has been
\* recorded refers to an existing checkpoint file, the one saved in the round
\* in which its best value was recorded, and holds that value.
C1_BestRefIsBestCheckpoint ==
    ValidationRoundEnded =>
        \A k \in DOMAIN expected :
            expected[k] # None =>
                /\ _Metric_paths(Hook, k) = <<expected[k].ckpt>>
                /\ expected[k].ckpt \in files
                /\ _Metric_values(Hook, k) = <<expected[k].value>>

\* C2: with keep_all=False, when a validation round has ended the checkpoint
\* files on disk are exactly latest_checkpoint and the metrics' best checkpoints.
C2_OnlyReferencedCheckpointsRemain ==
    (ValidationRoundEnded /\ ~keep_all) =>
        files = {latest} \cup best_checkpoints(Hook)

\* C3: after every pre_step call and every close call whose save did not fail
\* (a failing save is C19's case), latest_checkpoint is the
\* checkpoint of the current iteration, saved by that call; the file exists and
\* no checkpoint was saved after it.
C3_LatestIsLastSaved ==
    (call.op \in {"pre_step", "close"} /\ ~call.save_fails) =>
        /\ latest = default_checkpoint_path(iteration)
        /\ latest \in files
        /\ latest = saved

\* a validation round that raised, older checkpoints beside the one it saved
C3_Witness ==
    /\ ValidationRoundEnded
    /\ exc # NoExc
    /\ latest = saved
    /\ \E f \in files : f.it < latest.it

C6_BestValueMonotone ==
    [][(phase = "running" /\ call'.op = "pre_step") =>
          \A k \in DOMAIN mvalue :
              /\ NoWorse(CriterionOf(metrics, k), mvalue'[k], mvalue[k])
              /\ (call'.fired /\ HasCandidate(call'.reviews, k)) =>
                    IF NoWorse(CriterionOf(metrics, k), Candidate(call'.reviews, k), mvalue[k])
                    THEN mvalue'[k] = Candidate(call'.reviews, k)
                    ELSE mvalue'[k] = mvalue[k]]_vars

\* C7: is_better(v) returns, and returns true iff v <= best ('min') or
\* v >= best ('max'); a tie is accepted, and a fresh tracker accepts every
\* finite candidate.
C7_IsBetterContract ==
    call.op = "is_better" =>
        LET k == call.key
            v == call.value
            criterion == CriterionOf(metrics, k)
        IN  /\ exc = NoExc
            /\ (criterion = "min" => (ret <=> v <= mvalue[k]))
            /\ (criterion = "max" => (ret <=> v >= mvalue[k]))
            /\ (v = mvalue[k] => ret)
            /\ (mvalue[k] = _Metric__init__(criterion) /\ v \in Scalars => ret)

\* a finite candidate equal to the best value was accepted
C7_Witness ==
    /\ call.op = "is_better"
    /\ call.value \in Scalars
    /\ call.value = mvalue[call.key]
    /\ ret = TRUE

\* C8: with keep_all=True no call of the hook deletes a checkpoint file.
C8_KeepAllNeverDeletes == [][keep_all => files \subseteq files']_vars

\* keep_all=True, a validation round has ended and a checkpoint that neither
\* latest_checkpoint nor a metric refers to is on disk
C8_Witness ==
    /\ keep_all
    /\ ValidationRoundEnded
    /\ \E f \in files : f # latest /\ f \notin best_checkpoints(Hook)

\* C9: _Metric(key, criterion).set_state(tracker.to_json()) returns and leaves
\* a tracker with the values and paths of the original; from a tracker without
\* a recorded update it leaves a tracker without a reference.
C9_RoundTrip ==
    call.op = "round_trip" =>
        /\ exc = NoExc
        /\ ret.values = _Metric_values(Hook, call.key)
        /\ ret.paths = _Metric_paths(Hook, call.key)
        /\ (_Metric_values(Hook, call.key) = <<>> => ret.symlink_name = None)

\* C10: a hook constructed with init_from_json=True from a JSON written by
\* dump_json, with the persisted metric set, has the persisted
\* latest_checkpoint and, for every metric, the persisted value and reference.
C10_InitFromJson ==
    (/\ call.op = "__init__"
     /\ call.init_from_json
     /\ json # NoFile
     /\ Keys(call.metrics) = DOMAIN json.metrics
     /\ \A k \in Keys(call.metrics) :
            CriterionOf(call.metrics, k) = json.metrics[k].criterion)
    => /\ phase = "running"
       /\ exc = NoExc
       /\ latest = Path(json.latest_checkpoint_path)
       /\ \A k \in Keys(call.metrics) :
              /\ _Metric_values(Hook, k) = json.metrics[k].values
              /\ _Metric_to_json(Hook, k).paths = json.metrics[k].paths

\* C11: constructing with init_from_json=True and a non-empty metrics dict
\* whose key set differs from the key set of the JSON raises the assertion on
\* the key sets: no hook comes into being, the constructor has read the JSON
\* and done nothing else (no tracker restored, no validation), and the
\* directory is as it was.
C11_KeySetMismatchRejected ==
    [][(/\ call'.op = "__init__"
        /\ call'.init_from_json
        /\ call'.arg.type = "dict" /\ Len(call'.arg.val) > 0
        /\ json # NoFile
        /\ Keys(call'.metrics) # DOMAIN json.metrics)
       => /\ exc' = "AssertionError"
          /\ phase' = "none"
          /\ mvalue' = <<>>
          /\ steps' = <<[op |-> "open", arg |-> JsonFile]>>
          /\ UNCHANGED <<files, links, json>>]_vars

\* the JSON holds one metric, the hook was to be constructed with two
C11_Witness ==
    /\ call.op = "__init__"
    /\ call.init_from_json
    /\ json # NoFile
    /\ DOMAIN json.metrics # Keys(call.metrics)
    /\ DOMAIN json.metrics \subseteq Keys(call.metrics)
    /\ Cardinality(DOMAIN json.metrics) = 1
    /\ exc = "AssertionError"

\* C12: a close call whose save succeeds adds the checkpoint of the current
\* iteration and nothing else to the files, sets latest_checkpoint to it and
\* writes a JSON naming it; it runs no validation, leaves every tracker's
\* value and reference, the symlinks and the summary as they were, and
\* deletes no file.
C12_CloseFrame ==
    [][(call'.op = "close" /\ ~call'.save_fails)
       => LET checkpoint_path == default_checkpoint_path(iteration) IN
          /\ exc' = NoExc
          /\ files' = files \cup {checkpoint_path}
          /\ latest' = checkpoint_path
          /\ json' # NoFile
          /\ Path(json'.latest_checkpoint_path) = checkpoint_path
          /\ steps' = <<[op |-> "save_checkpoint", arg |-> checkpoint_path],
                        [op |-> "dump_json", arg |-> checkpoint_path]>>
          /\ UNCHANGED <<mvalue, msymlink, links, summary, last>>]_vars

\* a close after a train step: the checkpoint it saved is new, older ones stay
C12_Witness ==
    /\ call.op = "close"
    /\ ~call.save_fails
    /\ phase = "closed"
    /\ at = "pre"
    /\ iteration > 0
    /\ json # NoFile
    /\ Path(json.latest_checkpoint_path) = default_checkpoint_path(iteration)
    /\ \E f \in files : f.it < iteration

\* the positions of the steps of a kind in the trace of the last call
StepsAt(op) == { i \in 1..Len(steps) : steps[i].op = op }

\* C13: a validation round asks every tracker, then writes the summary, then
\* writes the JSON, then garbage-collects, in this order.
C13_RoundStepOrder ==
    ValidationRoundEnded =>
        /\ exc = NoExc
        /\ Cardinality(StepsAt("is_better")) = Len(metrics)
        /\ StepsAt("SummaryHook.dump_summary") # {}
        /\ StepsAt("dump_json") # {}
        /\ StepsAt("_cleanup_stale_checkpoints") # {}
        /\ \A a \in StepsAt("is_better"), b \in StepsAt("SummaryHook.dump_summary"),
              c \in StepsAt("dump_json"), d \in StepsAt("_cleanup_stale_checkpoints") :
              a < b /\ b < c /\ c < d

\* C15: update(value, checkpoint_path) returns; afterwards the best value is
\* value, the tracker has a symlink that resolves to checkpoint_path, and no
\* checkpoint file was deleted.
C15_UpdateRetargets ==
    call.op = "update" =>
        /\ exc = NoExc
        /\ mvalue[call.key] = call.value
        /\ msymlink[call.key] # None
        /\ _Metric_paths(Hook, call.key) = <<call.path>>
        /\ call.path \in files

\* C16: two trackers with different keys get different symlink paths for the
\* same checkpoint directory.
C16_SymlinkNameInjective ==
    call.op = "_get_symlink_path" =>
        \A k \in Keys(metrics) \ {call.key} :
            _get_symlink_path(k, call.path) # ret

\* C17: in a validation round is_better is handed, for every metric with
\* collected scalars, one float, the mean of these scalars; a metric the
\* contract makes accept it holds that float as its best value afterwards.
C17_CandidateIsAggregateScalar ==
    ValidationRoundEnded =>
        \A k \in Keys(metrics) :
            HasCandidate(call.reviews, k) =>
                /\ \E i \in StepsAt("is_better") :
                      /\ steps[i].arg.key = k
                      /\ steps[i].arg.value.type = "float"
                      /\ steps[i].arg.value.val = Candidate(call.reviews, k)
                /\ (expected[k] # None /\ expected[k].ckpt = saved)
                      => mvalue[k] = Candidate(call.reviews, k)

\* C18: a garbage collection in which a stale file has been removed by someone
\* else since glob listed it returns without error and has removed every
\* other stale file: what is left is in used_checkpoints.
C18_MissingFileTolerated ==
    (/\ call.op = "_cleanup_stale_checkpoints"
     /\ ~keep_all
     /\ latest # None
     /\ \/ call.vanished \in call.files /\ call.vanished # latest
        \/ call.vanished = JsonFile /\ call.json # NoFile)
    => /\ exc = NoExc
       /\ files \subseteq best_checkpoints(Hook) \cup {latest}

\* C19: a pre_step or close call whose save_checkpoint fails raises the error
\* of the save and has done nothing else: latest_checkpoint, the trackers, the
\* symlinks, the summary, the trigger, the files and the JSON are as before.
C19_SaveFailureLeavesState ==
    [][(call'.op \in {"pre_step", "close"} /\ call'.save_fails)
       => /\ exc' = "OSError"
          /\ phase' \in {"raised", "closed"}
          /\ steps' = <<>>
          /\ UNCHANGED <<latest, mvalue, msymlink, links, summary, last, files,
                         json, saved>>]_vars

\* a pre_step of a resumed session fails to save at a later iteration: the
\* JSON and latest_checkpoint of before are still there
C19_Witness ==
    /\ call.op = "pre_step"
    /\ call.save_fails
    /\ exc = "OSError"
    /\ phase = "raised"
    /\ json # NoFile
    /\ latest # None
    /\ latest # default_checkpoint_path(iteration)

\* C20: constructing with a metrics argument that is not a non-empty dict
\* (empty dict, None, a list) raises the assertion of the constructor: no hook
\* comes into being, nothing was read, written or saved.
C20_BadMetricsRejected ==
    [][(call'.op = "__init__" /\ ~(call'.arg.type = "dict" /\ Len(call'.arg.val) > 0))
       => /\ exc' = "AssertionError"
          /\ phase' = "none"
          /\ steps' = <<>>
          /\ UNCHANGED <<files, links, json, saved>>]_vars

\* the empty dict with init_from_json=True beside a JSON it could have read
C20_Witness ==
    /\ call.op = "__init__"
    /\ call.arg.type = "dict"
    /\ Len(call.arg.val) = 0
    /\ call.init_from_json
    /\ json # NoFile
    /\ exc = "AssertionError"

\* C21: set_state handed an entry whose paths and values differ in number, or
\* with more than one path, raises and leaves the tracker's value and
\* reference as they were.
C21_IncoherentEntryRefused ==
    [][(/\ call'.op = "set_state"
        /\ \/ Len(call'.state_dict.paths) # Len(call'.state_dict.values)
           \/ Len(call'.state_dict.paths) > 1)
       => /\ exc' # NoExc
          /\ UNCHANGED <<mvalue, msymlink>>]_vars

\* key and criterion of the entry are the tracker's, the entry has one path
\* and no value
C21_Witness ==
    /\ call.op = "set_state"
    /\ call.state_dict.key = call.key
    /\ call.state_dict.criterion = CriterionOf(metrics, call.key)
    /\ Len(call.state_dict.paths) = 1
    /\ Len(call.state_dict.values) = 0
    /\ exc # NoExc

\* C22: set_state handed an entry whose key or criterion is not the tracker's
\* raises AssertionError and leaves the tracker's value and reference as they
\* were.
C22_KeyOrCriterionMismatch ==
    [][(/\ call'.op = "set_state"
        /\ \/ call'.state_dict.key # call'.key
           \/ call'.state_dict.criterion # CriterionOf(metrics, call'.key))
       => /\ exc' = "AssertionError"
          /\ UNCHANGED <<mvalue, msymlink, files, links>>]_vars

\* the key is the tracker's, the criterion is not, and the tracker holds a
\* finite value
C22_Witness ==
    /\ call.op = "set_state"
    /\ call.state_dict.key = call.key
    /\ call.state_dict.criterion # CriterionOf(metrics, call.key)
    /\ mvalue[call.key] \in Scalars
    /\ exc = "AssertionError"

\* C23: the priority of CheckpointedValidationHook is above Priority.PRINT and
\* below Priority.SUMMARY.
C23_PriorityBetweenPrintAndSummary ==
    (\E i \in DOMAIN hooks : hooks[i] = "CheckpointedValidationHook") =>
        /\ Priority.PRINT < priority("CheckpointedValidationHook")
        /\ priority("CheckpointedValidationHook") < Priority.SUMMARY

\* C24: the hooks are called in descending order of priority, post_step in the
\* order of pre_step; StopTrainingHook's priority is below that of every other
\* hook class, so when StopTraining is raised the pre_step of every other hook
\* has returned at this step, and a CheckpointedValidationHook has saved the
\* checkpoint of the iteration.
C24_StopTrainingHookLast ==
    /\ \A cls \in HookClasses \ {"StopTrainingHook"} :
          priority("StopTrainingHook") < priority(cls)
    /\ \A i, j \in DOMAIN hooks : i < j => priority(hooks[i]) >= priority(hooks[j])
    /\ call.op = "train_step" =>
          steps = [i \in DOMAIN hooks |-> [op |-> "post_step", arg |-> hooks[i]]]
    /\ phase = "stopped" =>
          /\ hooks[pos] = "StopTrainingHook"
          /\ pos = Len(hooks)
          /\ (\E i \in DOMAIN hooks : hooks[i] = "CheckpointedValidationHook")
                => /\ latest = default_checkpoint_path(iteration)
                   /\ latest \in files
                   /\ saved = latest

\* StopTraining raised after a train step, behind a CheckpointedValidationHook
\* and a hook of default priority
C24_Witness ==
    /\ phase = "stopped"
    /\ iteration > 0
    /\ Len(hooks) = 3
    /\ hooks[1] = "CheckpointedValidationHook"
    /\ hooks[2] = "BaseHook"
    /\ default_checkpoint_path(iteration) \in files

\* a loop in which no hook but the StopTrainingHook can raise
OnlyStopTrainingRaises ==
    \A i \in DOMAIN hooks :
        \/ hooks[i] \in {"StopTrainingHook", "BaseHook"}
        \/ hooks[i] = "SimpleCheckpointHook" /\ keep_all

\* C25: StopTrainingHook.pre_step raises StopTraining when its end trigger
\* fires and returns otherwise; it raises at the iteration the trigger is set
\* to and not before; and in a loop that advances by one iteration per step
\* and that no other hook breaks off, it is raised eventually.
C25_StopTrainingAtEnd ==
    /\ []((call.op = "pre_step" /\ call.hook = "StopTrainingHook") =>
            /\ (exc = "StopTraining") <=> EndTrigger(end_at, iteration)
            /\ (exc = "StopTraining") => iteration = end_at)
    /\ [](phase = "stopped" => iteration = end_at)
    /\ (OnlyStopTrainingRaises => <>(phase = "stopped"))

\* StopTraining raised at the iteration of the trigger, after steps at which
\* the hook returned
C25_Witness ==
    /\ phase = "stopped"
    /\ exc = "StopTraining"
    /\ end_at > 1
    /\ iteration = end_at

\* C26: after a pre_step of SimpleCheckpointHook, with keep_all=False every
\* checkpoint saved so far is on disk, with keep_all=True only the one just
\* saved.
C26_SimpleCheckpointKeepAll ==
    (call.op = "pre_step" /\ call.hook = "SimpleCheckpointHook") =>
        /\ exc = NoExc
        /\ IF keep_all
           THEN files = {default_checkpoint_path(iteration)}
           ELSE files = { default_checkpoint_path(i) : i \in 0..iteration }

\* C27: a pre_step whose trigger does not fire saves the checkpoint, sets
\* latest_checkpoint and does nothing else; a pre_step whose trigger fires
\* validates, asks every tracker, garbage-collects and writes the JSON.
C27_NonTriggerStepFrame ==
    [][(call'.op = "pre_step" /\ ~call'.save_fails)
       => LET checkpoint_path == default_checkpoint_path(iteration)
              did(op) == \E i \in DOMAIN steps' : steps'[i].op = op
          IN  /\ files' = files \cup {checkpoint_path}
              /\ latest' = checkpoint_path
              /\ IF ~call'.fired
                 THEN /\ exc' = NoExc
                      /\ steps' = <<[op |-> "save_checkpoint", arg |-> checkpoint_path]>>
                      /\ UNCHANGED <<mvalue, msymlink, links, json, summary>>
                 ELSE /\ exc' = NoExc
                      /\ did("validate")
                      /\ did("is_better")
                      /\ did("_cleanup_stale_checkpoints")
                      /\ did("dump_json")
                      /\ json' # NoFile
                      /\ Path(json'.latest_checkpoint_path) = checkpoint_path]_vars

\* C28: a garbage collection nobody interferes with leaves ckpt_state.json as
\* it found it.
C28_JsonSurvivesCleanup ==
    (/\ call.op = "_cleanup_stale_checkpoints"
     /\ call.vanished = None
     /\ call.json # NoFile)
    => json = call.json

\* C29: with keep_all=False, when pre_step or close has returned, every
\* checkpoint file is latest_checkpoint or a tracker's best checkpoint, and
\* there are at most (number of metrics) + 1 of them.
C29_EveryFileReferenced ==
    (call.op \in {"pre_step", "close"} /\ exc = NoExc /\ ~keep_all) =>
        /\ files \subseteq best_checkpoints(Hook) \cup {latest}
        /\ Cardinality(files) <= Len(metrics) + 1

\* C30: to_json yields as many values as paths, and at most one of each.
C30_ToJsonLengths ==
    call.op = "to_json" =>
        /\ Len(ret.values) = Len(ret.paths)
        /\ Len(ret.values) <= 1

(***************************************************************************)
(* Unit calls of ProgressBarHook(max_trigger, max_it_len, update_intervall) *)
(***************************************************************************)
Units == {"iteration", "epoch", "session", "step"}

\* an EndTrigger, a tuple or a list carry a length and a unit; the other
\* arguments are told by their type
MaxTriggers ==
    [type : {"EndTrigger", "tuple", "list"}, length : 1..MaxIter, unit : Units]
    \cup { [type |-> t] : t \in {"int", "NoneType", "IntervalTrigger"} }

InitProgressBar ==
    /\ phase = "unit"
    /\ at = "pre"
    /\ iteration = 0
    /\ files = {}
    /\ links = <<>>
    /\ json = NoFile
    /\ metrics = <<>>
    /\ keep_all = FALSE
    /\ period = 1
    /\ latest = None
    /\ mvalue = <<>>
    /\ msymlink = <<>>
    /\ summary = <<>>
    /\ last = 0
    /\ saved = None
    /\ expected = <<>>
    /\ exc = NoExc
    /\ steps = <<>>
    /\ hooks = <<>>
    /\ pos = 0
    /\ end_at = 0
    /\ last_checkpoint_path = None
    /\ timings = 0
    /\ summary_hook = None
    /\ call = [op |-> "none"]
    /\ ret = None

\* ProgressBarHook(max_trigger, max_it_len, update_intervall); ret is the
\* progress bar of the object, None when there is none
UnitProgressBar(max_trigger, max_it_len, update_intervall) ==
    /\ phase = "unit"
    /\ LET r == ProgressBarHook__init__(max_trigger, max_it_len) IN
       /\ exc' = r.exc
       /\ ret' = r.pbar
    /\ call' = [op |-> "ProgressBarHook.__init__", max_trigger |-> max_trigger,
                max_it_len |-> max_it_len, update_intervall |-> update_intervall]
    /\ UNCHANGED <<files, links, json, latest, mvalue, msymlink, summary, last,
                   saved, steps, last_checkpoint_path, timings, summary_hook>>
    /\ UnitFrame

NextProgressBar ==
    \E max_trigger \in MaxTriggers, max_it_len \in 0..MaxIter,
       update_intervall \in 1..MaxPeriod :
        UnitProgressBar(max_trigger, max_it_len, update_intervall)

ProgressBarSpec == InitProgressBar /\ [][NextProgressBar]_vars

\* C31: a hook resumed with init_from_json=True from the JSON of an earlier
\* session is running, and each metric with a persisted best value has a
\* best value no worse than the persisted one and references only
\* checkpoints that exist.
C31_BestSurvivesRestart ==
    (/\ call.op = "__init__"
     /\ call.init_from_json
     /\ json # NoFile
     /\ Keys(call.metrics) = DOMAIN json.metrics
     /\ \A k \in Keys(call.metrics) :
            CriterionOf(call.metrics, k) = json.metrics[k].criterion)
    => /\ phase = "running"
       /\ \A k \in Keys(call.metrics) :
              json.metrics[k].values # <<>> =>
                  /\ _Metric_values(Hook, k) # <<>>
                  /\ NoWorse(CriterionOf(call.metrics, k),
                             _Metric_values(Hook, k)[1], json.metrics[k].values[1])
                  /\ \A i \in DOMAIN _Metric_to_json(Hook, k).paths :
                         Path(_Metric_to_json(Hook, k).paths[i]) \in files

\* C32: on every pre_step call of a ValidationHook or a
\* CheckpointedValidationHook the summary collections are empty: a validation
\* round that completes leaves them empty, and the train step with its
\* post_step calls does not touch them.
C32_SummaryEmptyAtPreStep ==
    [][/\ (call'.op = "pre_step"
           /\ call'.hook \in {"ValidationHook", "CheckpointedValidationHook"})
          => /\ \A k \in DOMAIN summary : Len(summary[k]) = 0
             /\ (call'.fired /\ exc' = NoExc)
                    => \A k \in DOMAIN summary' : Len(summary'[k]) = 0
       /\ call'.op = "train_step" => summary' = summary]_vars

C32_Witness ==
    /\ call.op = "pre_step"
    /\ call.hook = "ValidationHook"
    /\ call.fired
    /\ call.reviews # <<>>
    /\ exc = NoExc
    /\ StepsAt("validate") # {}
    /\ StepsAt("SummaryHook.dump_summary") # {}
    /\ DOMAIN summary # {}
    /\ \A k \in DOMAIN summary : Len(summary[k]) = 0

\* C33: with a SummaryHook whose validate argument is the trigger of the
\* validation hook, at every step where the validation trigger fires the
\* SummaryHook's pre_step has already run in that step and has dumped, so the
\* timer is empty and the validation starts.
C33_TimerEmptyAtValidation ==
    (/\ call.op = "pre_step"
     /\ call.hook \in {"ValidationHook", "CheckpointedValidationHook"}
     /\ call.fired
     /\ summary_hook # None
     /\ summary_hook.validate = period)
    => /\ summary_hook.last = iteration
       /\ summary_hook.collected = 0
       /\ StepsAt("validate") # {}

\* the validation starts at an iteration where only the validate argument
\* makes the SummaryHook dump
C33_Witness ==
    /\ call.op = "pre_step"
    /\ call.hook = "ValidationHook"
    /\ call.fired
    /\ summary_hook # None
    /\ summary_hook.validate = period
    /\ iteration > 1
    /\ iteration % summary_hook.period # 0
    /\ StepsAt("validate") # {}
    /\ exc = NoExc

\* C34: SummaryHook.pre_step dumps and resets the summary exactly when its
\* trigger fires (the interval trigger, or with validate the disjunction of
\* the two) or the iteration is 1; otherwise the summary is left as it is.
C34_SummaryDumpedOnTrigger ==
    [][(call'.op = "pre_step" /\ call'.hook = "SummaryHook") =>
         LET fires == \/ IntervalTrigger(summary_hook.period, summary_hook.last,
                                         iteration)
                      \/ /\ summary_hook.validate # 0
                         /\ IntervalTrigger(summary_hook.validate,
                                            summary_hook.last, iteration)
             dumped == \E i \in DOMAIN steps' :
                           steps'[i].op = "SummaryHook.dump_summary"
         IN  IF fires \/ iteration = 1
             THEN dumped /\ summary_hook'.collected = 0 /\ timings' = 0
             ELSE /\ ~dumped
                  /\ summary_hook'.collected = summary_hook.collected
                  /\ timings' = timings]_vars

\* the dump at iteration 1, where the trigger does not fire
C34_Witness ==
    /\ call.op = "pre_step"
    /\ call.hook = "SummaryHook"
    /\ iteration = 1
    /\ summary_hook.period # 1
    /\ summary_hook.validate = 0
    /\ summary_hook.collected = 0
    /\ StepsAt("SummaryHook.dump_summary") # {}

\* C35: the first pre_step of a SimpleCheckpointHook completes without error
\* for both values of keep_all, saves the checkpoint and records it as
\* last_checkpoint_path.
C35_SimpleCheckpointFirstPreStep ==
    (call.op = "pre_step" /\ call.hook = "SimpleCheckpointHook" /\ iteration = 0)
    => /\ exc = NoExc
       /\ last_checkpoint_path = default_checkpoint_path(iteration)
       /\ last_checkpoint_path \in files

\* C36: a pre_step of SimpleCheckpointHook at a step where its trigger does
\* not fire saves nothing and deletes nothing.
C36_SimpleCheckpointOnlyOnTrigger ==
    [][(/\ call'.op = "pre_step"
        /\ call'.hook = "SimpleCheckpointHook"
        /\ iteration # 0
        /\ ~IntervalTrigger(period, last, iteration))
       => files' = files]_vars

\* C37: the construction of a ProgressBarHook fails with ValueError when
\* max_trigger is neither an EndTrigger nor a tuple or list, and when the unit
\* is neither 'iteration' nor 'epoch'; no progress bar is made then.
C37_ProgressBarValueError ==
    call.op = "ProgressBarHook.__init__" =>
        ((\/ call.max_trigger.type \notin {"EndTrigger", "tuple", "list"}
          \/ call.max_trigger.unit \notin {"iteration", "epoch"})
         => exc = "ValueError" /\ ret = None)

C37_Witness ==
    /\ call.op = "ProgressBarHook.__init__"
    /\ call.max_trigger.type = "tuple"
    /\ call.max_trigger.unit = "session"
    /\ exc = "ValueError"
    /\ ret = None

====
